---- MODULE Spec2Model ----
(***************************************************************************)
(* Model of hekmon/httplog: the catcherflusher ResponseWriter              *)
(* (src/response.go), a decorator around an http.ResponseWriter (the       *)
(* "sink") that records the status code, optionally mirrors the body into  *)
(* a buffer and auto-flushes streaming content types.                      *)
(*                                                                         *)
(* One ResponseWriter serves one request and is used by one goroutine, so  *)
(* every method call is one atomic action.  The sink is modelled by the    *)
(* log of the state-changing calls it receives (WriteHeader, Write,        *)
(* Flush) and by the Content-Type value of its header map.                 *)
(***************************************************************************)
EXTENDS Integers, Sequences, FiniteSets, TLC

\* ------------------------------------------------------------------ bounds
\* Number of WriteHeader / Write / Flush calls the handler makes on one
\* ResponseWriter.
MaxCalls == 3

\* Number of requests that go through one Logger.
MaxRequests == 3

\* l.bodyMaxRead, the largest request body logged at debug level (10000 by
\* default), scaled down.
BodyMaxRead == 2

\* Number of WriteHeader / Write calls the wrapped handler makes for one
\* request.
MaxHandlerCalls == 2

\* ------------------------------------------------------- program constants
\* http.StatusOK, the code Write passes to the implicit WriteHeader.
StatusOK == 200

\* Header.Get returns "" when the key is absent.
Absent == ""

\* Content-Type values the handler may set through Header().
ContentTypes == {Absent, "text/event-stream", "application/x-ndjson", "text/plain"}

\* Status codes the handler passes to WriteHeader: valid 1xx-5xx codes, as
\* the http.ResponseWriter contract requires (an informational code and two
\* different final codes).
Codes == {100, StatusOK, 404}

\* Byte slices the handler passes to Write.
Data == {<<1>>, <<2, 3>>}

\* A nil pointer / nil slice is the empty tuple, a non-nil one a 1-tuple
\* holding the value it points to.
Nil == <<>>

\* What the sink's Write may return for data: everything written and no
\* error, or a short count and an error.
WriteResults(data) ==
    {[n |-> Len(data), err |-> FALSE], [n |-> Len(data) - 1, err |-> TRUE]}

VARIABLES
    StreamingContentTypes,  \* package variable: list of streaming types
    isFlusher,              \* does the sink w implement http.Flusher
    captureBody,            \* constructor argument
    header,                 \* Content-Type held by the sink's header map
    wrapped,                \* calls received by the sink, in order
    flusher,                \* rw.flusher # nil
    code,                   \* rw.code
    body,                   \* rw.body: Nil or <<bytes written so far>>
    wrappedRet,             \* (n, err) returned by the sink's last Write
    ret,                    \* (n, err) returned by the last rw.Write
    calls                   \* calls made by the handler on rw, in order

VARIABLES
    rwNil,                  \* NewResponseWriter returned the nil pointer
    panicked                \* a method call dereferenced the nil pointer

nilVars == <<rwNil, panicked>>

\* The Log middleware (src/log.go), one entry per request.
VARIABLES
    level,                  \* level of the slog handler behind l.slogger
    requests,               \* l.requests, the atomic counter
    pc,                     \* where the request is in the middleware
    reqID,                  \* reqID of the request, 0 before it has one
    origBody,               \* the body the client sends
    contentLength,          \* r.ContentLength
    fails,                  \* the connection breaks before the body's end
    rBody,                  \* r.Body: the bytes behind the reader, its position
    handlerSaw,             \* Nil, or <<what the handler read from r.Body>>
    origW,                  \* calls the middleware itself makes on w
    flusherCatcher,         \* Nil, or <<the ResponseWriter around w>>
    hcalls,                 \* number of calls the handler made on it
    logs,                   \* records logged with the request's logger
    errLogged               \* "Failed to read body" logged for the request

logVars == <<level, requests, pc, reqID, origBody, contentLength, fails, rBody,
             handlerSaw, origW, flusherCatcher, hcalls, logs, errLogged>>

rwVars == <<StreamingContentTypes, isFlusher, captureBody, header, wrapped,
            flusher, code, body, wrappedRet, ret, calls, nilVars>>

vars == <<rwVars, logVars>>

\* ------------------------------------------------------- the sink's calls
\* One call received by the sink; call is the index in calls of the handler
\* call during which it was made, ct the Content-Type of the header map a
\* WriteHeader sends.
SinkCall(op, c, d, i) ==
    [op |-> op, code |-> c, data |-> d, call |-> i,
     ct |-> IF op = "WriteHeader" THEN header ELSE Absent]

NoRet == [n |-> 0, err |-> FALSE]

\* The fields of rw together with the sink's call log, as one value the
\* methods transform.
RW == [wrapped |-> wrapped, flusher |-> flusher, code |-> code, body |-> body]

\* ------------------------------------------------------------ constructor
\* Variants of the constructor with a plausible slip each.
\* The flusher is kept without the type assertion on w.
NewResponseWriter_AlwaysFlusher(w, capture) ==
    [wrapped |-> <<>>,
     flusher |-> TRUE,
     code    |-> 0,
     body    |-> IF capture THEN <<(<<>>)>> ELSE Nil]

\* The buffer is allocated whatever captureBody is.
NewResponseWriter_AlwaysBuffer(w, capture) ==
    [wrapped |-> <<>>,
     flusher |-> w,
     code    |-> 0,
     body    |-> <<(<<>>)>>]

NewResponseWriter(w, capture) ==
    [wrapped |-> <<>>,
     flusher |-> w,
     code    |-> 0,
     body    |-> IF capture THEN <<(<<>>)>> ELSE Nil]

\* --------------------------------------------------------------- getters
GetResponseCode == code

\* bytes.Buffer.Bytes() of a buffer never written to is the nil slice.
GetBody ==
    IF body = Nil THEN Nil
    ELSE IF body[1] = <<>> THEN Nil ELSE <<body[1]>>

\* rw.Header().Get("Content-Type"): the sink's own header map.
Header == header

\* ----------------------------------------------------------- WriteHeader
\* for _, ct := range StreamingContentTypes { if ct == responseContentType }
\* The media type of a Content-Type value, without its parameters, and its
\* lower-case form, for the values the handler sets.
MediaType(ct) ==
    IF ct = "text/event-stream; charset=utf-8" THEN "text/event-stream" ELSE ct

LowerCase(ct) ==
    IF ct = "Text/Event-Stream" THEN "text/event-stream" ELSE ct

\* Variant of the comparison: the parameters are stripped first.
shouldFlush_MediaType(types, responseContentType) ==
    \E k \in 1..Len(types) : types[k] = MediaType(responseContentType)

shouldFlush(types, responseContentType) ==
    \E k \in 1..Len(types) : types[k] = responseContentType

\* Variants of WriteHeader with a plausible slip each.
\* The call is dropped once a final code has been recorded.
rwWriteHeader_OnceFinal(rw, statusCode, i) ==
    IF rw.code >= 200 THEN rw
    ELSE LET fwd == [rw EXCEPT
                  !.wrapped = Append(@, SinkCall("WriteHeader", statusCode, <<>>, i)),
                  !.code = statusCode]
         IN  IF ~fwd.flusher THEN fwd
             ELSE IF shouldFlush(StreamingContentTypes, Header)
                  THEN [fwd EXCEPT !.wrapped = Append(@, SinkCall("Flush", 0, <<>>, i))]
                  ELSE [fwd EXCEPT !.flusher = FALSE]

\* The flusher is not cleared for a non-streaming content type.
rwWriteHeader_KeepFlusher(rw, statusCode, i) ==
    LET fwd == [rw EXCEPT
                  !.wrapped = Append(@, SinkCall("WriteHeader", statusCode, <<>>, i)),
                  !.code = statusCode]
    IN  IF ~fwd.flusher THEN fwd
        ELSE IF shouldFlush(StreamingContentTypes, Header)
             THEN [fwd EXCEPT !.wrapped = Append(@, SinkCall("Flush", 0, <<>>, i))]
             ELSE fwd

\* The header write of a streaming content type is not flushed.
rwWriteHeader_NoFlush(rw, statusCode, i) ==
    LET fwd == [rw EXCEPT
                  !.wrapped = Append(@, SinkCall("WriteHeader", statusCode, <<>>, i)),
                  !.code = statusCode]
    IN  IF ~fwd.flusher THEN fwd
        ELSE IF shouldFlush(StreamingContentTypes, Header)
             THEN fwd
             ELSE [fwd EXCEPT !.flusher = FALSE]

\* The content type is only looked at for a final (non-1xx) code.
rwWriteHeader_SkipInformational(rw, statusCode, i) ==
    LET fwd == [rw EXCEPT
                  !.wrapped = Append(@, SinkCall("WriteHeader", statusCode, <<>>, i)),
                  !.code = statusCode]
    IN  IF ~fwd.flusher \/ statusCode < 200 THEN fwd
        ELSE IF shouldFlush(StreamingContentTypes, Header)
             THEN [fwd EXCEPT !.wrapped = Append(@, SinkCall("Flush", 0, <<>>, i))]
             ELSE [fwd EXCEPT !.flusher = FALSE]

rwWriteHeader(rw, statusCode, i) ==
    LET fwd == [rw EXCEPT
                  !.wrapped = Append(@, SinkCall("WriteHeader", statusCode, <<>>, i)),
                  !.code = statusCode]
    IN  IF ~fwd.flusher THEN fwd
        ELSE IF shouldFlush(StreamingContentTypes, Header)
             THEN [fwd EXCEPT !.wrapped = Append(@, SinkCall("Flush", 0, <<>>, i))]
             ELSE [fwd EXCEPT !.flusher = FALSE]

\* ------------------------------------------------------------------ Write
\* Variants of Write with a plausible slip each.
rwWriteTail(hdr, data, i) ==
    LET buf == IF hdr.body # Nil
               THEN [hdr EXCEPT !.body = <<hdr.body[1] \o data>>]
               ELSE hdr
        out == [buf EXCEPT !.wrapped = Append(@, SinkCall("Write", 0, data, i))]
    IN  IF buf.flusher
        THEN [out EXCEPT !.wrapped = Append(@, SinkCall("Flush", 0, <<>>, i))]
        ELSE out

\* The implicit WriteHeader is made on every Write.
rwWrite_AlwaysHeader(rw, data, i) ==
    rwWriteTail(rwWriteHeader(rw, StatusOK, i), data, i)

\* The implicit WriteHeader is never made.
rwWrite_NoImplicitHeader(rw, data, i) ==
    rwWriteTail(rw, data, i)

\* The implicit WriteHeader is made unless the recorded code is 200.
rwWrite_HeaderUnlessOK(rw, data, i) ==
    rwWriteTail(IF rw.code # StatusOK THEN rwWriteHeader(rw, StatusOK, i) ELSE rw, data, i)

\* The buffer is replaced by the data instead of being appended to.
rwWrite_Overwrite(rw, data, i) ==
    LET hdr == IF rw.code = 0 THEN rwWriteHeader(rw, StatusOK, i) ELSE rw
        buf == IF hdr.body # Nil THEN [hdr EXCEPT !.body = <<data>>] ELSE hdr
        out == [buf EXCEPT !.wrapped = Append(@, SinkCall("Write", 0, data, i))]
    IN  IF buf.flusher
        THEN [out EXCEPT !.wrapped = Append(@, SinkCall("Flush", 0, <<>>, i))]
        ELSE out

\* The flush is made at once instead of being deferred.
rwWrite_FlushBeforeWrite(rw, data, i) ==
    LET hdr == IF rw.code = 0 THEN rwWriteHeader(rw, StatusOK, i) ELSE rw
        buf == IF hdr.body # Nil
               THEN [hdr EXCEPT !.body = <<hdr.body[1] \o data>>]
               ELSE hdr
        fl  == IF buf.flusher
               THEN [buf EXCEPT !.wrapped = Append(@, SinkCall("Flush", 0, <<>>, i))]
               ELSE buf
    IN  [fl EXCEPT !.wrapped = Append(@, SinkCall("Write", 0, data, i))]

\* The flush is decided before the implicit WriteHeader.
rwWrite_FlushDecidedFirst(rw, data, i) ==
    LET hdr == IF rw.code = 0 THEN rwWriteHeader(rw, StatusOK, i) ELSE rw
        buf == IF hdr.body # Nil
               THEN [hdr EXCEPT !.body = <<hdr.body[1] \o data>>]
               ELSE hdr
        out == [buf EXCEPT !.wrapped = Append(@, SinkCall("Write", 0, data, i))]
    IN  IF rw.flusher
        THEN [out EXCEPT !.wrapped = Append(@, SinkCall("Flush", 0, <<>>, i))]
        ELSE out

rwWrite(rw, data, i) ==
    LET hdr == IF rw.code = 0 THEN rwWriteHeader(rw, StatusOK, i) ELSE rw
        buf == IF hdr.body # Nil
               THEN [hdr EXCEPT !.body = <<hdr.body[1] \o data>>]
               ELSE hdr
        out == [buf EXCEPT !.wrapped = Append(@, SinkCall("Write", 0, data, i))]
    IN  IF buf.flusher
        THEN [out EXCEPT !.wrapped = Append(@, SinkCall("Flush", 0, <<>>, i))]
        ELSE out

\* return rw.wrapped.Write(data): r is what the sink's Write returned.
\* Variant of the return of Write: the sink's error is swallowed.
rwWriteReturn_SwallowError(r) == [n |-> r.n, err |-> FALSE]

rwWriteReturn(r) == r

\* ------------------------------------------------------------------ Flush
\* Variant of Flush: like Write, it first makes the implicit WriteHeader.
rwFlush_ImplicitHeader(rw, i) ==
    LET hdr == IF rw.code = 0 THEN rwWriteHeader(rw, StatusOK, i) ELSE rw
    IN  IF hdr.flusher
        THEN [hdr EXCEPT !.wrapped = Append(@, SinkCall("Flush", 0, <<>>, i))]
        ELSE hdr

rwFlush(rw, i) ==
    IF rw.flusher
    THEN [rw EXCEPT !.wrapped = Append(@, SinkCall("Flush", 0, <<>>, i))]
    ELSE rw

\* ---------------------------------------------------------------- actions
HandlerCall(op, c, d) == [op |-> op, code |-> c, data |-> d]

Install(rw) ==
    /\ wrapped' = rw.wrapped
    /\ flusher' = rw.flusher
    /\ code' = rw.code
    /\ body' = rw.body

\* The sinks handed to NewResponseWriter: none, one that is not an
\* http.Flusher, one that is.
NilSink == "nil"

Sinks == {NilSink, "plain", "flusher"}

\* if w == nil { return }: the named result rw is still the nil pointer.
NewReturnsNil(w) == w = NilSink

\* The state after rw = NewResponseWriter(w, captureBody); the fields of a
\* nil rw do not exist and are shown with their zero values.
InitWith(w) ==
    /\ StreamingContentTypes = <<"text/event-stream", "application/x-ndjson">>
    /\ rwNil = NewReturnsNil(w)
    /\ panicked = FALSE
    /\ isFlusher = (w = "flusher")
    /\ captureBody \in BOOLEAN
    /\ header = Absent
    /\ LET rw == IF NewReturnsNil(w)
                 THEN [wrapped |-> <<>>, flusher |-> FALSE, code |-> 0, body |-> Nil]
                 ELSE NewResponseWriter(isFlusher, captureBody)
       IN  /\ wrapped = rw.wrapped
           /\ flusher = rw.flusher
           /\ code = rw.code
           /\ body = rw.body
    /\ wrappedRet = NoRet
    /\ ret = NoRet
    /\ calls = <<>>

\* No request has reached the Logger, whose slog handler has level lv.
AllRequests == 1..MaxRequests

\* A reader: the bytes behind it, how many were read, and whether it reads
\* from the connection.
NoReader == [data |-> <<>>, pos |-> 0, conn |-> FALSE]

LogIdle(lv) ==
    /\ level = lv
    /\ requests = 0
    /\ pc = [r \in AllRequests |-> "idle"]
    /\ reqID = [r \in AllRequests |-> 0]
    /\ origBody = [r \in AllRequests |-> <<>>]
    /\ contentLength = [r \in AllRequests |-> 0]
    /\ fails = [r \in AllRequests |-> FALSE]
    /\ rBody = [r \in AllRequests |-> NoReader]
    /\ handlerSaw = [r \in AllRequests |-> Nil]
    /\ origW = [r \in AllRequests |-> <<>>]
    /\ flusherCatcher = [r \in AllRequests |-> Nil]
    /\ hcalls = [r \in AllRequests |-> 0]
    /\ logs = [r \in AllRequests |-> <<>>]
    /\ errLogged = [r \in AllRequests |-> FALSE]

\* The middleware and the tests hand a sink that is not nil.
Init == (\E sink \in Sinks \ {NilSink} : InitWith(sink)) /\ LogIdle("INFO")

\* The handler sets or deletes Content-Type on the map Header() returns.
SetContentType(ct) ==
    /\ ~rwNil
    /\ header # ct
    /\ header' = ct
    /\ UNCHANGED <<StreamingContentTypes, isFlusher, captureBody, wrapped,
                   flusher, code, body, wrappedRet, ret, calls, nilVars, logVars>>

WriteHeader(statusCode) ==
    /\ ~rwNil
    /\ Len(calls) < MaxCalls
    /\ calls' = Append(calls, HandlerCall("WriteHeader", statusCode, <<>>))
    /\ Install(rwWriteHeader(RW, statusCode, Len(calls) + 1))
    /\ UNCHANGED <<StreamingContentTypes, isFlusher, captureBody, header, wrappedRet, ret,
                   nilVars, logVars>>

Write(data, r) ==
    /\ ~rwNil
    /\ Len(calls) < MaxCalls
    /\ calls' = Append(calls, HandlerCall("Write", 0, data))
    /\ Install(rwWrite(RW, data, Len(calls) + 1))
    /\ wrappedRet' = r
    /\ ret' = rwWriteReturn(r)
    /\ UNCHANGED <<StreamingContentTypes, isFlusher, captureBody, header, nilVars,
                   logVars>>

Flush ==
    /\ ~rwNil
    /\ Len(calls) < MaxCalls
    /\ calls' = Append(calls, HandlerCall("Flush", 0, <<>>))
    /\ Install(rwFlush(RW, Len(calls) + 1))
    /\ UNCHANGED <<StreamingContentTypes, isFlusher, captureBody, header, wrappedRet, ret,
                   nilVars, logVars>>

Next ==
    \/ \E ct \in ContentTypes : SetContentType(ct)
    \/ \E c \in Codes : WriteHeader(c)
    \/ \E d \in Data : \E r \in WriteResults(d) : Write(d, r)
    \/ Flush

Spec == Init /\ [][Next]_vars

\* ------------------------------------- the streaming set reconfigured
\* Content-Type values that differ from a streaming type by their case or
\* by a parameter, next to a listed and an unlisted one.
CfgContentTypes ==
    {"text/event-stream", "text/event-stream; charset=utf-8", "Text/Event-Stream",
     "text/plain"}

\* Values the program assigns to the package variable.
CfgStreamingLists ==
    {<<"text/event-stream", "application/x-ndjson">>, <<"text/plain">>, <<>>}

\* StreamingContentTypes = types, by any code of the program.
SetStreamingContentTypes(types) ==
    /\ StreamingContentTypes # types
    /\ StreamingContentTypes' = types
    /\ UNCHANGED <<isFlusher, captureBody, header, wrapped, flusher, code, body,
                   wrappedRet, ret, calls, nilVars, logVars>>

NextCfg ==
    \/ \E types \in CfgStreamingLists : SetStreamingContentTypes(types)
    \/ \E ct \in CfgContentTypes : SetContentType(ct)
    \/ \E c \in {100, StatusOK} : WriteHeader(c)
    \/ \E d \in {<<1>>} : Write(d, [n |-> Len(d), err |-> FALSE])
    \/ Flush

SpecCfg == Init /\ [][NextCfg]_vars

\* --------------------------------------------------- the nil sink
\* The methods of *ResponseWriter.
Methods == {"Header", "Write", "WriteHeader", "Flush", "GetResponseCode", "GetBody"}

\* A method called on the nil *ResponseWriter: each method starts by
\* reading a field of rw (rw.wrapped, rw.code, rw.flusher, rw.body), which
\* is a nil pointer dereference, a run-time panic.
NilDeref(method) ==
    /\ rwNil /\ ~panicked
    /\ panicked' = TRUE
    /\ calls' = Append(calls, HandlerCall(method, 0, <<>>))
    /\ UNCHANGED <<StreamingContentTypes, isFlusher, captureBody, header, wrapped,
                   flusher, code, body, wrappedRet, ret, rwNil, logVars>>

InitNil == (\E sink \in Sinks : InitWith(sink)) /\ LogIdle("INFO")

NextNil ==
    \/ Next
    \/ \E method \in Methods : NilDeref(method)

SpecNil == InitNil /\ [][NextNil]_vars

\* ------------------------------------------------- the Log middleware
\* Levels of the slog handler: Debug and Info records, Info records only,
\* neither.
Levels == {"DEBUG", "INFO", "ERROR"}

\* logger.Handler().Enabled(ctx, slog.LevelInfo) and (..., slog.LevelDebug)
InfoEnabled == level \in {"DEBUG", "INFO"}

DebugEnabled == level = "DEBUG"

\* http.StatusInternalServerError
StatusInternalServerError == 500

\* Request bodies: shorter than, as long as and longer than l.bodyMaxRead.
Bodies == {[k \in 1..n |-> k] : n \in 0..(BodyMaxRead + 1)}

\* r.ContentLength for a body: its length, or -1 when the request is
\* chunked.
ContentLengths(b) == {Len(b), -1}

\* l.requests.Add(1) on the atomic counter: the new value of the counter
\* and the value Add returns.  (A uint64: no wrap-around within the bound.)
\* Variant: Add returns the value the counter had before.
AtomicAdd_ReturnsOld(counter, delta) ==
    [value |-> counter + delta, ret |-> counter]

AtomicAdd(counter, delta) ==
    [value |-> counter + delta, ret |-> counter + delta]

\* l.requests.Load()
TotalRequests == requests

\* What is left behind a reader.
Rest(reader) == SubSeq(reader.data, reader.pos + 1, Len(reader.data))

\* The read hits the break of the connection.
Breaks(reader, broken) == reader.conn /\ broken /\ Rest(reader) # <<>>

\* The bytes a reader still delivers: what is left of its data, less the
\* last byte when the connection breaks before the end of the body.
Deliverable(reader, broken) ==
    IF Breaks(reader, broken)
    THEN SubSeq(Rest(reader), 1, Len(Rest(reader)) - 1)
    ELSE Rest(reader)

\* io.CopyN(&bodyBuffer, r.Body, n): the bytes copied, the error, and the
\* reader afterwards.  The error is io.EOF when the source ends before n
\* bytes, the connection's error when it breaks before n bytes.
CopyN(reader, n, broken) ==
    LET avail == Deliverable(reader, broken)
        took  == IF Len(avail) <= n THEN avail ELSE SubSeq(avail, 1, n)
    IN  [buf    |-> took,
         err    |-> IF Len(took) = n THEN "nil"
                    ELSE IF Breaks(reader, broken) THEN "unexpected EOF" ELSE "EOF",
         reader |-> [reader EXCEPT !.pos = @ + Len(took)]]

\* err != nil && err != io.EOF
\* Variant: the connection's error is taken for the end of the body.
ReadFailed_UnexpectedEOFTolerated(err) ==
    err # "nil" /\ err # "EOF" /\ err # "unexpected EOF"

ReadFailed(err) == err # "nil" /\ err # "EOF"

\* r.Body = io.NopCloser(&bodyBuffer): a reader over the bytes copied.
\* Variant: r.Body is left as it is, already read.
RestoreBody_NotRestored(buf, reader) == reader

RestoreBody(buf, reader) == [data |-> buf, pos |-> 0, conn |-> FALSE]

\* One record of the request's logger.
LogRecord(msg, c, b, skipped) ==
    [msg |-> msg, code |-> c, body |-> b, skipped |-> skipped]

\* http.Error(w, msg, code) on the original w: a WriteHeader and a Write
\* of the message.
HttpError(statusCode) ==
    <<SinkCall("WriteHeader", statusCode, <<>>, 0), SinkCall("Write", 0, <<>>, 0)>>

\* The request reaches the middleware: start, reqID := l.requests.Add(1),
\* logger := l.slogger.With(request_id).
Enter(r, b, cl, broken) ==
    /\ pc[r] = "idle"
    /\ LET add == AtomicAdd(requests, 1)
       IN  /\ requests' = add.value
           /\ reqID' = [reqID EXCEPT ![r] = add.ret]
    /\ origBody' = [origBody EXCEPT ![r] = b]
    /\ contentLength' = [contentLength EXCEPT ![r] = cl]
    /\ fails' = [fails EXCEPT ![r] = broken]
    /\ rBody' = [rBody EXCEPT ![r] = [data |-> b, pos |-> 0, conn |-> TRUE]]
    /\ pc' = [pc EXCEPT ![r] = "entered"]
    /\ UNCHANGED <<level, handlerSaw, origW, flusherCatcher, hcalls, logs, errLogged>>
    /\ UNCHANGED rwVars

\* From "Log the request" to the construction of flusherCatcher: the
\* request is logged, its body is logged at debug level when it is small
\* enough, and either the read failed and the middleware answers 500 and
\* returns, or the handler is about to be called.
Receive(r) ==
    /\ pc[r] = "entered"
    /\ LET received == IF InfoEnabled
                       THEN <<LogRecord("HTTP request received", 0, <<>>, FALSE)>>
                       ELSE <<>>
           dump     == contentLength[r] > 0 /\ DebugEnabled
           read     == dump /\ contentLength[r] <= BodyMaxRead
           cp       == CopyN(rBody[r], BodyMaxRead, fails[r])
       IN  IF read /\ ReadFailed(cp.err)
           THEN /\ errLogged' = [errLogged EXCEPT ![r] = TRUE]
                /\ origW' = [origW EXCEPT ![r] = @ \o HttpError(StatusInternalServerError)]
                /\ rBody' = [rBody EXCEPT ![r] = cp.reader]
                /\ logs' = [logs EXCEPT ![r] = @ \o received]
                /\ pc' = [pc EXCEPT ![r] = "done"]
                /\ UNCHANGED flusherCatcher
           ELSE /\ logs' = [logs EXCEPT ![r] = @ \o received \o
                     (IF ~dump THEN <<>>
                      ELSE IF read
                           THEN <<LogRecord("HTTP request body", 0, cp.buf, FALSE)>>
                           ELSE <<LogRecord("HTTP request body", 0, <<>>, TRUE)>>)]
                /\ rBody' = [rBody EXCEPT ![r] =
                     IF read THEN RestoreBody(cp.buf, cp.reader) ELSE @]
                /\ flusherCatcher' = [flusherCatcher EXCEPT ![r] =
                     <<NewResponseWriter(TRUE, DebugEnabled)>>]
                /\ pc' = [pc EXCEPT ![r] = "serving"]
                /\ UNCHANGED <<errLogged, origW>>
    /\ UNCHANGED <<level, requests, reqID, origBody, contentLength, fails,
                   handlerSaw, hcalls>>
    /\ UNCHANGED rwVars

\* The wrapped handler reads r.Body to its end.
HandlerRead(r) ==
    /\ pc[r] = "serving"
    /\ handlerSaw[r] = Nil
    /\ LET got == Deliverable(rBody[r], fails[r])
       IN  /\ handlerSaw' = [handlerSaw EXCEPT ![r] = <<got>>]
           /\ rBody' = [rBody EXCEPT ![r].pos = @ + Len(got)]
    /\ UNCHANGED <<level, requests, pc, reqID, origBody, contentLength, fails,
                   origW, flusherCatcher, hcalls, logs, errLogged>>
    /\ UNCHANGED rwVars

\* The wrapped handler calls WriteHeader or Write on flusherCatcher.
HandlerWriteHeader(r, statusCode) ==
    /\ pc[r] = "serving"
    /\ hcalls[r] < MaxHandlerCalls
    /\ hcalls' = [hcalls EXCEPT ![r] = @ + 1]
    /\ flusherCatcher' = [flusherCatcher EXCEPT ![r] =
         <<rwWriteHeader(flusherCatcher[r][1], statusCode, hcalls[r] + 1)>>]
    /\ UNCHANGED <<level, requests, pc, reqID, origBody, contentLength, fails,
                   rBody, handlerSaw, origW, logs, errLogged>>
    /\ UNCHANGED rwVars

HandlerWrite(r, data) ==
    /\ pc[r] = "serving"
    /\ hcalls[r] < MaxHandlerCalls
    /\ hcalls' = [hcalls EXCEPT ![r] = @ + 1]
    /\ flusherCatcher' = [flusherCatcher EXCEPT ![r] =
         <<rwWrite(flusherCatcher[r][1], data, hcalls[r] + 1)>>]
    /\ UNCHANGED <<level, requests, pc, reqID, origBody, contentLength, fails,
                   rBody, handlerSaw, origW, logs, errLogged>>
    /\ UNCHANGED rwVars

\* The "HTTP request handled" record: response_code is
\* flusherCatcher.GetResponseCode(), the code field of the writer.
\* Variant: a handler that sent no header is logged with the 200 that
\* net/http sends for it.
HandledRecord_DefaultOK(rw) ==
    LogRecord("HTTP request handled",
              IF rw.code = 0 THEN StatusOK ELSE rw.code, <<>>, FALSE)

HandledRecord(rw) == LogRecord("HTTP request handled", rw.code, <<>>, FALSE)

\* next.ServeHTTP returns: "Log the response".
Return(r) ==
    /\ pc[r] = "serving"
    /\ LET rw      == flusherCatcher[r][1]
           rbody   == IF rw.body = Nil THEN <<>> ELSE rw.body[1]
           handled == IF InfoEnabled THEN <<HandledRecord(rw)>> ELSE <<>>
           resp    == IF ~DebugEnabled THEN <<>>
                      ELSE IF Len(rbody) <= BodyMaxRead
                           THEN <<LogRecord("HTTP response", 0, rbody, FALSE)>>
                           ELSE <<LogRecord("HTTP response", 0, <<>>, TRUE)>>
       IN  logs' = [logs EXCEPT ![r] = @ \o handled \o resp]
    /\ pc' = [pc EXCEPT ![r] = "done"]
    /\ UNCHANGED <<level, requests, reqID, origBody, contentLength, fails, rBody,
                   handlerSaw, origW, flusherCatcher, hcalls, errLogged>>
    /\ UNCHANGED rwVars

\* The response writer variables of the single-writer specifications, at
\* rest.
RWIdle ==
    /\ InitWith("flusher")
    /\ captureBody = FALSE

\* Concurrent requests without a body through one Logger.
InitLog == RWIdle /\ \E lv \in Levels : LogIdle(lv)

NextLog ==
    \/ \E r \in AllRequests : Enter(r, <<>>, 0, FALSE)
    \/ \E r \in AllRequests : Receive(r)
    \/ \E r \in AllRequests : Return(r)

SpecLog == InitLog /\ [][NextLog]_vars

\* One request in detail: its body, its length, the connection.
InitReq == RWIdle /\ \E lv \in Levels : LogIdle(lv)

NextReq ==
    \/ \E b \in Bodies : \E cl \in ContentLengths(b) : \E broken \in BOOLEAN :
         Enter(1, b, cl, broken)
    \/ Receive(1)
    \/ HandlerRead(1)
    \/ \E c \in {StatusOK, 404} : HandlerWriteHeader(1, c)
    \/ \E d \in Data : HandlerWrite(1, d)
    \/ Return(1)

SpecReq == InitReq /\ [][NextReq]_vars

TypeOK ==
    /\ isFlusher \in BOOLEAN /\ captureBody \in BOOLEAN /\ flusher \in BOOLEAN
    /\ header \in ContentTypes
    /\ code \in Codes \cup {0}
    /\ Len(calls) <= MaxCalls

\* ========================================================== verification
\* The sink calls made during handler call i.
SinkOf(i) == SelectSeq(wrapped, LAMBDA e : e.call = i)

\* The WriteHeader calls of a sequence of sink calls.
HeadersIn(seq) == SelectSeq(seq, LAMBDA e : e.op = "WriteHeader")

CodesOf(seq) == [k \in 1..Len(seq) |-> seq[k].code]

\* Positions of the calls of kind op in a sequence of sink calls.
Positions(seq, op) == {k \in 1..Len(seq) : seq[k].op = op}

\* The WriteHeader calls the wrapper made on its own, from inside Write.
Implicit(seq, cs) ==
    SelectSeq(seq, LAMBDA e : e.op = "WriteHeader" /\ cs[e.call].op = "Write")

\* The bytes of a slice; the nil slice has none.
Bytes(slice) == IF slice = Nil THEN <<>> ELSE slice[1]

\* d1 d2 ... dn for the Write calls of a sequence of handler calls.
RECURSIVE ConcatData(_)
ConcatData(cs) ==
    IF cs = <<>> THEN <<>>
    ELSE (IF Head(cs).op = "Write" THEN Head(cs).data ELSE <<>>) \o ConcatData(Tail(cs))

InStreamingSet(ct) ==
    \E k \in DOMAIN StreamingContentTypes : StreamingContentTypes[k] = ct

\* The step is one handler call of kind op.
IsCall(op) == Len(calls') = Len(calls) + 1 /\ calls'[Len(calls')].op = op

\* The sink calls made during the step.
NewSink == SubSeq(wrapped', Len(wrapped) + 1, Len(wrapped'))

LastCall == calls[Len(calls)]

\* Only Flush calls were made before handler call i.
NoHeaderBefore(i) == \A j \in 1..(i - 1) : calls[j].op = "Flush"

\* ---------------------------------------------------------------------
\* C1: with captureBody = true, after any sequence of Write calls,
\* interleaved with any WriteHeader and Flush calls, GetBody() is the
\* concatenation of the data of the Write calls, in call order.
C1_BodyIsConcatenation ==
    captureBody => Bytes(GetBody) = ConcatData(calls)

C1_Witness ==
    /\ captureBody
    /\ Len(calls) = 3
    /\ calls[1].op = "Write" /\ calls[3].op = "Write"
    /\ calls[2].op \in {"WriteHeader", "Flush"}
    /\ calls[1].data # calls[3].data
    /\ Bytes(GetBody) = calls[1].data \o calls[3].data

\* ---------------------------------------------------------------------
IsFinal(c) == c >= 200

FinalHeaders(seq) == SelectSeq(seq, LAMBDA e : e.op = "WriteHeader" /\ IsFinal(e.code))

\* C2 as stated: the recorded code leaves 0 at most once, and once it is
\* nonzero no later call makes the sink receive a second final status.
C2_Original ==
    [][/\ code # 0 => code' # 0
       /\ code # 0 => Len(FinalHeaders(wrapped')) <= 1]_vars

\* C2 as amended: the recorded code leaves 0 at most once, and once it is
\* nonzero the sink receives a WriteHeader only from an explicit WriteHeader
\* call of the handler (one per call, with the handler's code), never from a
\* Write or a Flush.
C2_SetOnceNoImplicitAfter ==
    [][/\ code # 0 => code' # 0
       /\ code # 0 =>
            CodesOf(HeadersIn(NewSink)) =
                IF IsCall("WriteHeader") THEN <<calls'[Len(calls')].code>> ELSE <<>>]_vars

C2_Witness ==
    /\ Len(calls) = 3
    /\ calls[1].op = "WriteHeader" /\ IsFinal(calls[1].code)
    /\ calls[2].op = "WriteHeader" /\ IsFinal(calls[2].code)
    /\ calls[1].code # calls[2].code
    /\ calls[3].op = "Write"
    /\ CodesOf(HeadersIn(wrapped)) = <<calls[1].code, calls[2].code>>

\* ---------------------------------------------------------------------
ExplicitHeaders == {i \in 1..Len(calls) : calls[i].op = "WriteHeader"}

\* C3: every WriteHeader(c) call, repeated or not, makes exactly one sink
\* WriteHeader(c) call, the sink receives them in call order, and
\* GetResponseCode() is the code of the most recent WriteHeader call.
C3_ForwardAllLastWins ==
    /\ \A i \in ExplicitHeaders : CodesOf(HeadersIn(SinkOf(i))) = <<calls[i].code>>
    /\ CodesOf(SelectSeq(wrapped,
                LAMBDA e : e.op = "WriteHeader" /\ e.call \in ExplicitHeaders))
         = CodesOf(SelectSeq(calls, LAMBDA c : c.op = "WriteHeader"))
    /\ \A i \in ExplicitHeaders :
         (\A j \in ExplicitHeaders : j <= i) => GetResponseCode = calls[i].code

C3_Witness ==
    /\ Len(calls) = 3
    /\ calls[1].op = "WriteHeader" /\ IsFinal(calls[1].code)
    /\ calls[2].op = "WriteHeader" /\ calls[2].code = calls[1].code
    /\ calls[3].op = "WriteHeader" /\ calls[3].code # calls[1].code
    /\ GetResponseCode = calls[3].code

\* ---------------------------------------------------------------------
\* C4: GetResponseCode() is 0 as long as neither Write nor WriteHeader was
\* called; a first Write with no prior WriteHeader forwards WriteHeader(200)
\* to the sink before the sink's Write, and GetResponseCode() is then 200.
C4_ImplicitOK ==
    /\ NoHeaderBefore(Len(calls) + 1) => GetResponseCode = 0
    /\ \A i \in 1..Len(calls) :
         calls[i].op = "Write" /\ NoHeaderBefore(i) =>
            LET s == SinkOf(i)
            IN  /\ Positions(s, "WriteHeader") = {1}
                /\ s[1].code = 200
                /\ Positions(s, "Write") # {}
                /\ i = Len(calls) => GetResponseCode = 200

C4_Witness ==
    /\ Len(calls) = 2
    /\ calls[1].op = "Flush"
    /\ calls[2].op = "Write"
    /\ GetResponseCode = 200
    /\ wrapped[1].op = "WriteHeader"

\* ---------------------------------------------------------------------
\* C5: a Write made while the recorded code is nonzero forwards no
\* WriteHeader and leaves the code as it is; the sink receives at most one
\* implicit WriteHeader, it carries 200 and comes from a Write made while
\* the recorded code is 0.
C5_NoImplicitAfterHeader ==
    [][/\ IsCall("WriteHeader") => code' = calls'[Len(calls')].code /\ code' # 0
       /\ IsCall("Write") /\ code # 0 =>
            code' = code /\ HeadersIn(NewSink) = <<>>
       /\ Implicit(NewSink, calls') # <<>> =>
            /\ code = 0
            /\ CodesOf(Implicit(NewSink, calls')) = <<200>>
            /\ Implicit(wrapped, calls) = <<>>
       /\ Len(Implicit(wrapped', calls')) <= 1]_vars

C5_Witness ==
    /\ Len(calls) = 3
    /\ calls[1].op = "WriteHeader" /\ calls[1].code = 404
    /\ calls[2].op = "Write" /\ calls[3].op = "Write"
    /\ GetResponseCode = 404
    /\ CodesOf(HeadersIn(wrapped)) = <<404>>

OneFlushAfterWrite(s) ==
    /\ Cardinality(Positions(s, "Write")) = 1
    /\ Cardinality(Positions(s, "Flush")) = 1
    /\ \A w \in Positions(s, "Write") : \A f \in Positions(s, "Flush") : w < f

\* A header write with Content-Type text/event-stream was made during
\* handler call j.
EventStreamHeaderAt(j) ==
    \E k \in Positions(wrapped, "WriteHeader") :
        wrapped[k].call = j /\ wrapped[k].ct = "text/event-stream"

NWrites == Len(SelectSeq(calls, LAMBDA c : c.op = "Write"))

\* A response on a flush-capable sink, without capture, whose header is
\* written once (explicitly, or implicitly by the first Write) with
\* Content-Type application/x-ndjson and which then consists of Writes.
NdjsonResponse ==
    /\ isFlusher /\ ~captureBody
    /\ Len(calls) >= 1
    /\ calls[1].op \in {"WriteHeader", "Write"}
    /\ wrapped[1].ct = "application/x-ndjson"
    /\ \A i \in 2..Len(calls) : calls[i].op = "Write"

EachWriteFlushed ==
    /\ Cardinality(Positions(wrapped, "Write")) = NWrites
    /\ \A k \in Positions(wrapped, "Write") :
         k < Len(wrapped) /\ wrapped[k + 1].op = "Flush"

\* C8 as stated: such a response of n Writes makes the sink receive n
\* writes, each immediately followed by a flush, n Flush calls in total,
\* and GetBody() is absent.
C8_Original ==
    NdjsonResponse /\ NWrites >= 1 =>
        /\ EachWriteFlushed
        /\ Cardinality(Positions(wrapped, "Flush")) = NWrites
        /\ GetBody = Nil

\* C8 as amended: the sink receives n writes, each immediately followed by
\* a flush, and n + 1 Flush calls in total (the header write is flushed
\* too); GetBody() is absent.
C8_NdjsonFlushCount ==
    NdjsonResponse =>
        /\ EachWriteFlushed
        /\ Cardinality(Positions(wrapped, "Flush")) = NWrites + 1
        /\ GetBody = Nil

C8_Witness ==
    /\ NdjsonResponse
    /\ NWrites = 3
    /\ Cardinality(Positions(wrapped, "Flush")) = 4

\* ---------------------------------------------------------------------
\* What the sink receives when the handler uses it directly.
Direct == [k \in 1..Len(calls) |-> <<calls[k].op, calls[k].code, calls[k].data>>]

\* What the sink receives through the wrapper, without the calls the
\* wrapper adds on its own (implicit WriteHeader, automatic Flush).
Through ==
    LET own == SelectSeq(wrapped, LAMBDA e : e.op = calls[e.call].op)
    IN  [k \in 1..Len(own) |-> <<own[k].op, own[k].code, own[k].data>>]

\* C9: on a flush-capable sink the calls the sink receives through the
\* wrapper are the handler's calls, apart from the calls the wrapper adds;
\* in particular every explicit Flush() reaches the sink.
C9_Transparent ==
    isFlusher => Through = Direct

\* ---------------------------------------------------------------------
\* C10: a Write calls the sink's Write exactly once, with the data it was
\* given; when the sink's Write fails, Write returns the sink's count and
\* error unchanged and the capture buffer ends with the whole data.
C10_WriteErrorPassThrough ==
    /\ \A i \in 1..Len(calls) :
         calls[i].op = "Write" =>
            /\ Cardinality(Positions(SinkOf(i), "Write")) = 1
            /\ \A k \in Positions(SinkOf(i), "Write") : SinkOf(i)[k].data = calls[i].data
    /\ Len(calls) > 0 /\ LastCall.op = "Write" /\ wrappedRet.err =>
         /\ ret = wrappedRet
         /\ captureBody =>
              LET b == Bytes(GetBody)
              IN  /\ Len(b) >= Len(LastCall.data)
                  /\ SubSeq(b, Len(b) - Len(LastCall.data) + 1, Len(b)) = LastCall.data

C10_Witness ==
    /\ captureBody
    /\ Len(calls) = 2
    /\ calls[1].op = "Write" /\ calls[2].op = "Write"
    /\ wrappedRet.err /\ wrappedRet.n < Len(LastCall.data)
    /\ ret = wrappedRet
    /\ Bytes(GetBody) = calls[1].data \o calls[2].data

\* ---------------------------------------------------------------------
\* C12: for a sink without flush support the flush capability is absent
\* in every reachable state and the sink never receives a Flush, whatever
\* the calls and the Content-Type.
C12_NoFlusherNoFlush ==
    ~isFlusher => ~flusher /\ Positions(wrapped, "Flush") = {}

C12_Witness ==
    /\ ~isFlusher
    /\ Len(calls) = 3
    /\ calls[1].op = "WriteHeader" /\ wrapped[1].ct = "text/event-stream"
    /\ calls[2].op = "Write"
    /\ calls[3].op = "Flush"
    /\ [k \in 1..Len(wrapped) |-> wrapped[k].op] = <<"WriteHeader", "Write">>

\* ---------------------------------------------------------------------
\* C13: with captureBody = false the buffer is absent in every reachable
\* state and GetBody() is nil after any sequence of writes.
C13_NoCaptureNoBody ==
    ~captureBody => body = Nil /\ GetBody = Nil

C13_Witness ==
    /\ ~captureBody
    /\ Len(calls) = 2
    /\ calls[1].op = "Write" /\ calls[2].op = "Write"
    /\ Cardinality(Positions(wrapped, "Write")) = 2
    /\ GetBody = Nil

\* ---------------------------------------------------------------------
\* The flush capability is still retained once a Write has made its
\* implicit WriteHeader, if it has one to make.
RetainedAfterImplicit ==
    flusher /\ (code = 0 => InStreamingSet(header))

OpsOf(seq) == [k \in 1..Len(seq) |-> seq[k].op]

\* C16: within one Write the flush is decided after the implicit
\* WriteHeader(200): if the capability is still retained then, the sink's
\* Flush is the last call of the Write, right after the sink's Write,
\* whether the sink's Write failed or not; otherwise the sink receives no
\* Flush during this Write.
C16_FlushDecidedAfterImplicit ==
    [][IsCall("Write") =>
         IF RetainedAfterImplicit
         THEN /\ Len(NewSink) >= 2
              /\ SubSeq(OpsOf(NewSink), Len(NewSink) - 1, Len(NewSink)) = <<"Write", "Flush">>
         ELSE Positions(NewSink, "Flush") = {}]_vars

C16_Witness ==
    /\ isFlusher /\ ~flusher
    /\ Len(calls) = 2
    /\ calls[1].op = "Flush" /\ calls[2].op = "Write"
    /\ wrappedRet.err
    /\ OpsOf(wrapped) = <<"Flush", "WriteHeader", "Write">>

C20_Frame ==
    [][/\ IsCall("Flush") => UNCHANGED <<code, body, flusher>>
       /\ header' # header => UNCHANGED <<code, body, flusher, wrapped>>
       /\ IsCall("Write") /\ code # 0 => code' = code
       /\ IsCall("WriteHeader") => body' = body]_vars

C20_Witness ==
    /\ isFlusher /\ flusher /\ captureBody
    /\ Len(calls) = 2
    /\ calls[1].op = "Write" /\ calls[2].op = "Flush"
    /\ code = 200 /\ body = <<calls[1].data>>
    /\ OpsOf(wrapped) = <<"WriteHeader", "Flush", "Write", "Flush", "Flush">>

\* ---------------------------------------------------------------------
\* C11: a wrapper constructed with a nil sink is inert: every operation on
\* it (Header, Write, WriteHeader, Flush, GetResponseCode, GetBody) is a
\* safe no-op and none crashes.
C11_NilSinkInert ==
    rwNil => ~panicked

\* ---------------------------------------------------------------------
\* The Content-Type is, character for character, an entry of the
\* streaming set as it is now.
ExactEntry(ct) ==
    \E k \in DOMAIN StreamingContentTypes : StreamingContentTypes[k] = ct

\* C17: a WriteHeader made while the capability is retained keeps it, and
\* flushes once after forwarding the header, if and only if the
\* Content-Type at the time of the call is exactly an entry of the
\* streaming set as it is at the time of the call; a value that differs by
\* a parameter or by its case discards it.
C17_ExactMatchCurrentSet ==
    [][IsCall("WriteHeader") /\ flusher =>
         /\ flusher' <=> ExactEntry(header)
         /\ OpsOf(NewSink) =
              IF ExactEntry(header) THEN <<"WriteHeader", "Flush">> ELSE <<"WriteHeader">>
         /\ (header # MediaType(header) \/ header # LowerCase(header))
              /\ ~ExactEntry(header) => ~flusher']_vars

C17_Witness ==
    /\ isFlusher /\ flusher
    /\ StreamingContentTypes = <<"text/plain">>
    /\ Len(calls) = 2
    /\ calls[1].op = "WriteHeader" /\ calls[2].op = "Write"
    /\ wrapped[1].ct = "text/plain"
    /\ OpsOf(wrapped) = <<"WriteHeader", "Flush", "Write", "Flush">>

\* ---------------------------------------------------------------------
\* The requests that have entered the middleware.
Entered == {r \in AllRequests : pc[r] # "idle"}

\* C14: under any interleaving of the requests through one Logger, no two
\* requests get the same request ID, the IDs handed out are exactly 1..n
\* for the n requests entered, and TotalRequests() is n, the requests
\* whose handler has not returned included.
C14_UniqueRequestIDs ==
    /\ \A r1, r2 \in Entered : r1 # r2 => reqID[r1] # reqID[r2]
    /\ {reqID[r] : r \in Entered} = 1..Cardinality(Entered)
    /\ TotalRequests = Cardinality(Entered)

C14_Witness ==
    /\ Entered = AllRequests
    /\ reqID[1] = MaxRequests
    /\ pc[1] = "serving" /\ pc[2] = "done" /\ pc[3] = "entered"
    /\ TotalRequests = MaxRequests

\* ---------------------------------------------------------------------
\* C15: whatever the middleware did with the request body (debug level or
\* not, Content-Length below, equal to or above the maximum debug size),
\* the handler reads from r.Body exactly the body the client sent, from
\* its first byte (on a connection that delivers it).
C15_BodyStillReadable ==
    \A r \in AllRequests :
        handlerSaw[r] # Nil /\ ~fails[r] => handlerSaw[r][1] = origBody[r]

C15_Witness ==
    /\ DebugEnabled
    /\ contentLength[1] = BodyMaxRead
    /\ Len(origBody[1]) = BodyMaxRead
    /\ \E k \in 1..Len(logs[1]) :
         logs[1][k].msg = "HTTP request body" /\ logs[1][k].body = origBody[1]
    /\ handlerSaw[1] = <<origBody[1]>>

\* ---------------------------------------------------------------------
\* The middleware read the body of request r for the debug log and the
\* connection broke before the body's end.
DebugReadBroke(r) ==
    /\ pc[r] \notin {"idle", "entered"}
    /\ DebugEnabled
    /\ contentLength[r] > 0 /\ contentLength[r] <= BodyMaxRead
    /\ fails[r]

MsgsOf(r) == {logs[r][k].msg : k \in 1..Len(logs[r])}

\* C19: when reading the request body for the debug log fails with an
\* error other than end-of-file, the middleware answers 500 on the
\* original response writer and returns: the handler is never invoked, no
\* "HTTP request handled" record is logged, and the request still counts
\* in TotalRequests().
C19_ReadFailureAnswers500 ==
    \A r \in AllRequests :
        DebugReadBroke(r) =>
            /\ pc[r] = "done"
            /\ errLogged[r]
            /\ [k \in 1..Len(origW[r]) |-> <<origW[r][k].op, origW[r][k].code>>]
                 = <<(<<"WriteHeader", 500>>), (<<"Write", 0>>)>>
            /\ flusherCatcher[r] = Nil /\ handlerSaw[r] = Nil /\ hcalls[r] = 0
            /\ "HTTP request handled" \notin MsgsOf(r)
            /\ reqID[r] >= 1 /\ TotalRequests >= reqID[r]

C19_Witness ==
    /\ DebugReadBroke(1)
    /\ pc[1] = "done"
    /\ TotalRequests = 1
    /\ MsgsOf(1) = {"HTTP request received"}
    /\ Len(origW[1]) = 2

\* ---------------------------------------------------------------------
\* The codes the capturing writer of request r forwarded to the original
\* writer, in order (the implicit 200 of a first Write included), and the
\* last of them, 0 when there is none.
ForwardedCodes(r) ==
    LET hs == SelectSeq(flusherCatcher[r][1].wrapped,
                        LAMBDA e : e.op = "WriteHeader")
    IN  [k \in 1..Len(hs) |-> hs[k].code]

LastRecorded(r) ==
    IF ForwardedCodes(r) = <<>> THEN 0
    ELSE ForwardedCodes(r)[Len(ForwardedCodes(r))]

HandledAt(r) == {k \in 1..Len(logs[r]) : logs[r][k].msg = "HTTP request handled"}

\* C21: the "HTTP request handled" record of a request is logged only
\* once its handler has returned, at most once, and its response_code is
\* the code the capturing writer recorded last: the code of the last
\* WriteHeader that went through it, and 0 when the handler returned
\* without calling Write or WriteHeader.
C21_HandledCarriesLastCode ==
    \A r \in AllRequests :
        /\ pc[r] # "done" => HandledAt(r) = {}
        /\ Cardinality(HandledAt(r)) <= 1
        /\ \A k \in HandledAt(r) :
              /\ flusherCatcher[r] # Nil
              /\ logs[r][k].code = LastRecorded(r)
              /\ hcalls[r] = 0 => logs[r][k].code = 0

\* A handler that wrote a body (implicit 200) and then sent 404: the
\* record carries 404.
C21_Witness ==
    /\ pc[1] = "done"
    /\ hcalls[1] = 2
    /\ ForwardedCodes(1) = <<StatusOK, 404>>
    /\ \E k \in HandledAt(1) : logs[1][k].code = 404

====
